---- MODULE Spec2Model ----
(***************************************************************************)
(* Model of the OpenSSL-backed prf+ KDF of libstrongswan                   *)
(* (plugins/openssl/openssl_kdf.c).  One KDF object is followed from       *)
(* openssl_kdf_create() to destroy().  Each method of kdf_t is one action; *)
(* the bodies of the methods are the operators named after them, which     *)
(* thread an explicit memory state (live allocations, what the releases    *)
(* of the running call left behind) through every allocation and release.  *)
(*                                                                         *)
(* Byte strings are sequences of byte values.  Derived output is kept      *)
(* symbolically: the bytes EVP_PKEY_derive writes are identified by the    *)
(* mode, digest, key and info of the context that produced them and by     *)
(* their number.                                                           *)
(***************************************************************************)
EXTENDS Integers, Sequences, FiniteSets, TLC

\* ------------------------------------------------------------------ bounds

\* Longest key or salt a caller passes to set_param.
MaxChunkLen == 1

\* Byte values a caller's key or salt is made of: the zero byte and one other.
ByteVals == {0, 1}

\* Keys and salts a caller passes: every byte string up to MaxChunkLen.
Chunks == UNION {[1..n -> ByteVals] : n \in 0..MaxChunkLen}

\* ------------------------------------------------------- program constants

\* SIZE_MAX of size_t.  Only ever compared, never computed with; held as the
\* largest integer the model checker represents.
SIZE_MAX == 2147483647

\* Capacity of the info field of an HKDF context ("up to 1024 bytes").
HKDF_MAXBUF == 1024

NULL == "NULL"

KDF_PRF_PLUS == "KDF_PRF_PLUS"

\* key_derivation_function_t values a caller may ask the plugin for.
KdfTypes == {KDF_PRF_PLUS, "KDF_UNDEFINED"}

KDF_PARAM_KEY == "KDF_PARAM_KEY"

KDF_PARAM_SALT == "KDF_PARAM_SALT"

\* kdf_param_t values a caller may pass: the two the switch handles and one
\* it does not.
KdfParams == {KDF_PARAM_KEY, KDF_PARAM_SALT, "KDF_PARAM_OTHER"}

EVP_PKEY_HKDEF_MODE_EXPAND_ONLY == "EXPAND_ONLY"

EVP_PKEY_HKDEF_MODE_EXTRACT_AND_EXPAND == "EXTRACT_AND_EXPAND"

chunk_empty == <<>>

\* sizeof(buf) of the self test in openssl_kdf_create.
SelfTestLen == 8

\* chunk_from_str("00000000000000000000000000000000"): 32 times ASCII '0'.
PlaceholderKey == [i \in 1..32 |-> 48]

\* ------------------------------------------------ resolver and provider

\* pseudo_random_function_t values a caller may pass to the constructor.
PrfAlgs == {"PRF_HMAC_SHA1", "PRF_HMAC_SHA2_256", "PRF_AES128_XCBC"}

\* hasher_algorithm_from_prf: the hash a PRF is built on.
hasher_algorithm_from_prf(prf_alg) ==
    CASE prf_alg = "PRF_HMAC_SHA1"     -> "HASH_SHA1"
      [] prf_alg = "PRF_HMAC_SHA2_256" -> "HASH_SHA256"
      [] OTHER                         -> "HASH_UNKNOWN"

\* enum_to_name(hash_algorithm_short_names, hash): NULL for a value the enum
\* does not name.
enum_to_name(hash) ==
    CASE hash = "HASH_SHA1"   -> "sha1"
      [] hash = "HASH_SHA256" -> "sha256"
      [] OTHER                -> NULL

\* Digest names the resolver can produce.
DigestNames == {"sha1", "sha256"}

\* EVP_get_digestbyname: the digest if the provider build has it, else NULL.
EVP_get_digestbyname(name, avail) ==
    IF name \in avail THEN name ELSE NULL

\* EVP_MD_size: output size of a digest in bytes.
EVP_MD_size(md) ==
    CASE md = "sha1"   -> 20
      [] md = "sha256" -> 32
      [] OTHER         -> 0

\* Most bytes HKDF-Expand produces for a digest: 255 blocks.
HkdfMaxLen(md) == 255 * EVP_MD_size(md)

\* ---------------------------------------------------------------- memory

\* Kinds of allocation the object makes.
Kinds == {"this", "key", "salt", "out", "ctx"}

\* No live allocation, nothing released.
EmptyMem == [heap |-> [k \in Kinds |-> 0], released |-> {}]

Zeros(n) == [i \in 1..n |-> 0]

AllZero(data) == \A i \in 1..Len(data) : data[i] = 0

\* malloc of n bytes for a buffer of the given kind; n = 0 allocates nothing.
Alloc(mem, kind, n) ==
    IF n = 0 THEN mem ELSE [mem EXCEPT !.heap[kind] = @ + 1]

\* free of a buffer of n bytes whose content at that moment is data; the
\* content stays behind in the released storage.  free(NULL) does nothing.
Free(mem, kind, n, data) ==
    IF n = 0 THEN mem
    ELSE [mem EXCEPT !.heap[kind] = @ - 1,
                     !.released = @ \cup {[kind |-> kind, data |-> data]}]

\* chunk_clone: an owned copy of the bytes.
chunk_clone(mem, kind, chunk) ==
    [chunk |-> chunk, mem |-> Alloc(mem, kind, Len(chunk))]

\* chunk_clear: overwrite the bytes with zero, free them, leave chunk_empty.
chunk_clear(mem, kind, chunk) ==
    [chunk |-> chunk_empty, mem |-> Free(mem, kind, Len(chunk), Zeros(Len(chunk)))]

\* An output buffer: its size, how many bytes of it were written, and which.
Buffer(len, written, data) == [len |-> len, written |-> written, data |-> data]

\* chunk_alloc(out_len): out_len bytes, none written yet.
chunk_alloc(mem, out_len) ==
    [chunk |-> Buffer(out_len, 0, <<>>), mem |-> Alloc(mem, "out", out_len)]

\* chunk_free of an output chunk: free the bytes, leave chunk_empty.
chunk_free(mem, chunk) ==
    [chunk |-> Buffer(0, 0, <<>>), mem |-> Free(mem, "out", chunk.len, <<>>)]

\* ------------------------------------------------------ the HKDF context

\* What the environment does to one expansion: 0 nothing, 1..7 the step of
\* that number reports an error (1 context creation, 2 init, 3 digest,
\* 4 mode, 5 key, 6 info, 7 derive), 8 a derive without a buffer answers
\* with the size it could produce instead of deriving.
EnvChoices == 0..8

\* HKDF-Expand: the first len bytes of the stream of (mode, md, key, info).
HKDF_Expand(mode, md, key, info, len) ==
    IF len = 0 THEN <<>> ELSE <<mode, md, key, info, len>>

\* EVP_PKEY_CTX_new_id(EVP_PKEY_HKDF, NULL): a context with nothing set.
EVP_PKEY_CTX_new_id(env) ==
    IF env = 1 THEN [ok |-> FALSE, null |-> TRUE]
    ELSE [ok |-> TRUE, null |-> FALSE, md |-> NULL,
          mode |-> EVP_PKEY_HKDEF_MODE_EXTRACT_AND_EXPAND,
          key |-> <<>>, info |-> <<>>]

EVP_PKEY_derive_init(ctx, env) ==
    [ctx EXCEPT !.ok = (env # 2)]

EVP_PKEY_CTX_set_hkdf_md(ctx, md, env) ==
    IF env = 3 \/ md = NULL THEN [ctx EXCEPT !.ok = FALSE]
    ELSE [ctx EXCEPT !.md = md]

EVP_PKEY_CTX_hkdf_mode(ctx, mode, env) ==
    IF env = 4 THEN [ctx EXCEPT !.ok = FALSE]
    ELSE [ctx EXCEPT !.mode = mode]

\* set1: the key of the context is replaced.
EVP_PKEY_CTX_set1_hkdf_key(ctx, key, env) ==
    IF env = 5 THEN [ctx EXCEPT !.ok = FALSE]
    ELSE [ctx EXCEPT !.key = key]

\* add1: the bytes are appended to the info the context already holds.
EVP_PKEY_CTX_add1_hkdf_info(ctx, info, env) ==
    IF env = 6 \/ Len(ctx.info) + Len(info) > HKDF_MAXBUF
    THEN [ctx EXCEPT !.ok = FALSE]
    ELSE [ctx EXCEPT !.info = @ \o info]

\* EVP_PKEY_derive(ctx, buffer, &out_len): out_len bytes into the buffer, or
\* an error when the digest cannot produce that many.  out_len is what the
\* call leaves in *out_len.
EVP_PKEY_derive(ctx, buffer, out_len, env) ==
    IF env = 7
    THEN [ok |-> FALSE, buffer |-> buffer, out_len |-> out_len, why |-> "error"]
    ELSE IF env = 8 /\ buffer.len = 0
    THEN [ok |-> TRUE, buffer |-> buffer, out_len |-> SIZE_MAX, why |-> "none"]
    ELSE IF out_len > HkdfMaxLen(ctx.md)
    THEN [ok |-> FALSE, buffer |-> buffer, out_len |-> out_len, why |-> "length"]
    ELSE [ok |-> TRUE,
          buffer |-> Buffer(buffer.len, out_len,
                            HKDF_Expand(ctx.mode, ctx.md, ctx.key, ctx.info, out_len)),
          out_len |-> out_len, why |-> "none"]

\* EVP_PKEY_CTX_free: free(NULL) does nothing.
EVP_PKEY_CTX_free(mem, ctx) ==
    Free(mem, "ctx", IF ctx.null THEN 0 ELSE 1, <<>>)

\* ------------------------------------------------------------ the object

\* private_kdf_t: the digest, the key and the salt.  NoObject stands for the
\* absence of an object (before construction, after free).
private_kdf_t(hasher, key, salt) == [hasher |-> hasher, key |-> key, salt |-> salt]

NoObject == private_kdf_t(NULL, chunk_empty, chunk_empty)

\* get_type as it would be if it answered for an object without a key.
get_type_needs_key(this) ==
    IF this.key = chunk_empty THEN "KDF_UNDEFINED" ELSE KDF_PRF_PLUS

\* get_type
get_type(this) == KDF_PRF_PLUS

\* get_length
get_length(this) == SIZE_MAX

\* The operands of the condition in get_bytes: a || b makes the next call
\* only if no call before it reported an error.
OrInit(ctx, env) ==
    IF ctx.ok THEN EVP_PKEY_derive_init(ctx, env) ELSE ctx

OrMd(ctx, md, env) ==
    IF ctx.ok THEN EVP_PKEY_CTX_set_hkdf_md(ctx, md, env) ELSE ctx

OrMode(ctx, env) ==
    IF ctx.ok
    THEN EVP_PKEY_CTX_hkdf_mode(ctx, EVP_PKEY_HKDEF_MODE_EXPAND_ONLY, env)
    ELSE ctx

OrKey(ctx, key, env) ==
    IF ctx.ok THEN EVP_PKEY_CTX_set1_hkdf_key(ctx, key, env) ELSE ctx

OrInfo(ctx, info, env) ==
    IF ctx.ok THEN EVP_PKEY_CTX_add1_hkdf_info(ctx, info, env) ELSE ctx

OrDerive(ctx, buffer, out_len, env) ==
    IF ctx.ok THEN EVP_PKEY_derive(ctx, buffer, out_len, env)
    ELSE [ok |-> FALSE, buffer |-> buffer, out_len |-> out_len, why |-> "error"]

\* The context once every call before the derivation was made or skipped.
Prepared(this, env) ==
    OrInfo(OrKey(OrMode(OrMd(OrInit(EVP_PKEY_CTX_new_id(env), env),
                             this.hasher, env), env),
                 this.key, env),
           this.salt, env)

\* What get_bytes hands back once the context is freed.
Returned(d, this, mem) ==
    [ret |-> d.ok, buffer |-> d.buffer, out_len |-> d.out_len, why |-> d.why,
     this |-> this, mem |-> mem]

\* get_bytes as it would be if it used the key up: the key is cleared once
\* the bytes are derived.
get_bytes_spends_key(this, mem, out_len, buffer, env) ==
    LET r == Returned(OrDerive(Prepared(this, env), buffer, out_len, env), this,
                      EVP_PKEY_CTX_free(
                          Alloc(mem, "ctx",
                                IF EVP_PKEY_CTX_new_id(env).null THEN 0 ELSE 1),
                          EVP_PKEY_CTX_new_id(env)))
        c == chunk_clear(r.mem, "key", this.key)
    IN  IF r.ret
        THEN [r EXCEPT !.this = [this EXCEPT !.key = c.chunk], !.mem = c.mem]
        ELSE r

\* get_bytes as it would be if only the success path freed the context.
get_bytes_leaks_on_failure(this, mem, out_len, buffer, env) ==
    LET d == OrDerive(Prepared(this, env), buffer, out_len, env)
        m == Alloc(mem, "ctx", IF EVP_PKEY_CTX_new_id(env).null THEN 0 ELSE 1)
    IN  Returned(d, this,
                 IF d.ok THEN EVP_PKEY_CTX_free(m, EVP_PKEY_CTX_new_id(env))
                 ELSE m)

\* get_bytes: a new context per call, digest, mode, key and info set on it in
\* this order (|| stops at the first step that reports an error), out_len
\* bytes derived into the buffer, the context freed on both paths.
get_bytes(this, mem, out_len, buffer, env) ==
    Returned(OrDerive(Prepared(this, env), buffer, out_len, env), this,
             EVP_PKEY_CTX_free(
                 Alloc(mem, "ctx", IF EVP_PKEY_CTX_new_id(env).null THEN 0 ELSE 1),
                 EVP_PKEY_CTX_new_id(env)))

\* allocate_bytes as it would be without the chunk_free of the failure path.
allocate_bytes_keeps_chunk(this, mem, out_len, env) ==
    LET a == chunk_alloc(mem, out_len)
        g == get_bytes(this, a.mem, out_len, a.chunk, env)
    IN  [ret |-> g.ret, chunk |-> g.buffer, why |-> g.why, this |-> g.this,
         mem |-> g.mem]

\* allocate_bytes as it would be if it took the length of the chunk from what
\* the derivation left in out_len.
allocate_bytes_reported_len(this, mem, out_len, env) ==
    LET a == chunk_alloc(mem, out_len)
        g == get_bytes(this, a.mem, out_len, a.chunk, env)
        f == chunk_free(g.mem, g.buffer)
    IN  IF ~g.ret
        THEN [ret |-> FALSE, chunk |-> f.chunk, why |-> g.why, this |-> g.this,
              mem |-> f.mem]
        ELSE [ret |-> TRUE, chunk |-> [g.buffer EXCEPT !.len = g.out_len],
              why |-> g.why, this |-> g.this, mem |-> g.mem]

\* allocate_bytes: a chunk of out_len bytes filled by get_bytes, freed again
\* (and left empty) when get_bytes fails.
allocate_bytes(this, mem, out_len, env) ==
    LET a == chunk_alloc(mem, out_len)
        g == get_bytes(this, a.mem, out_len, a.chunk, env)
        f == chunk_free(g.mem, g.buffer)
    IN  IF ~g.ret
        THEN [ret |-> FALSE, chunk |-> f.chunk, why |-> g.why, this |-> g.this,
              mem |-> f.mem]
        ELSE [ret |-> TRUE, chunk |-> g.buffer, why |-> g.why, this |-> g.this,
              mem |-> g.mem]

\* set_param as it would be if a new salt were added to the one held.
set_param_salt_appends(this, mem, param, chunk) ==
    CASE param = KDF_PARAM_KEY ->
            LET c == chunk_clear(mem, "key", this.key)
                n == chunk_clone(c.mem, "key", chunk)
            IN  [ret |-> TRUE, this |-> [this EXCEPT !.key = n.chunk], mem |-> n.mem]
      [] param = KDF_PARAM_SALT ->
            LET c == chunk_clear(mem, "salt", this.salt)
                n == chunk_clone(c.mem, "salt", this.salt \o chunk)
            IN  [ret |-> TRUE, this |-> [this EXCEPT !.salt = n.chunk], mem |-> n.mem]
      [] OTHER ->
            [ret |-> TRUE, this |-> this, mem |-> mem]

\* set_param as it would be if a new key were added to the one held.
set_param_key_appends(this, mem, param, chunk) ==
    CASE param = KDF_PARAM_KEY ->
            LET c == chunk_clear(mem, "key", this.key)
                n == chunk_clone(c.mem, "key", this.key \o chunk)
            IN  [ret |-> TRUE, this |-> [this EXCEPT !.key = n.chunk], mem |-> n.mem]
      [] param = KDF_PARAM_SALT ->
            LET c == chunk_clear(mem, "salt", this.salt)
                n == chunk_clone(c.mem, "salt", chunk)
            IN  [ret |-> TRUE, this |-> [this EXCEPT !.salt = n.chunk], mem |-> n.mem]
      [] OTHER ->
            [ret |-> TRUE, this |-> this, mem |-> mem]

\* set_param as it would be if the salt case cleared the key field.
set_param_salt_clears_key(this, mem, param, chunk) ==
    CASE param = KDF_PARAM_KEY ->
            LET c == chunk_clear(mem, "key", this.key)
                n == chunk_clone(c.mem, "key", chunk)
            IN  [ret |-> TRUE, this |-> [this EXCEPT !.key = n.chunk], mem |-> n.mem]
      [] param = KDF_PARAM_SALT ->
            LET c == chunk_clear(mem, "key", this.key)
                n == chunk_clone(c.mem, "salt", chunk)
            IN  [ret |-> TRUE,
                 this |-> [this EXCEPT !.key = c.chunk, !.salt = n.chunk],
                 mem |-> n.mem]
      [] OTHER ->
            [ret |-> TRUE, this |-> this, mem |-> mem]

\* set_param: the key or the salt is cleared and replaced by a copy of the
\* chunk; any other parameter falls through the switch.
set_param(this, mem, param, chunk) ==
    CASE param = KDF_PARAM_KEY ->
            LET c == chunk_clear(mem, "key", this.key)
                n == chunk_clone(c.mem, "key", chunk)
            IN  [ret |-> TRUE, this |-> [this EXCEPT !.key = n.chunk], mem |-> n.mem]
      [] param = KDF_PARAM_SALT ->
            LET c == chunk_clear(mem, "salt", this.salt)
                n == chunk_clone(c.mem, "salt", chunk)
            IN  [ret |-> TRUE, this |-> [this EXCEPT !.salt = n.chunk], mem |-> n.mem]
      [] OTHER ->
            [ret |-> TRUE, this |-> this, mem |-> mem]

\* destroy as it would be if the key were freed without being cleared.
destroy_unwiped(this, mem) ==
    LET s == chunk_clear(mem, "salt", this.salt)
    IN  [this |-> NoObject,
         mem |-> Free(Free(s.mem, "key", Len(this.key), this.key), "this", 1, <<>>)]

\* destroy as it would be without the free of the object.
destroy_keeps_object(this, mem) ==
    LET s == chunk_clear(mem, "salt", this.salt)
        k == chunk_clear(s.mem, "key", this.key)
    IN  [this |-> private_kdf_t(this.hasher, k.chunk, s.chunk), mem |-> k.mem]

\* destroy: salt and key cleared, the object freed.
destroy(this, mem) ==
    LET s == chunk_clear(mem, "salt", this.salt)
        k == chunk_clear(s.mem, "key", this.key)
    IN  [this |-> NoObject, mem |-> Free(k.mem, "this", 1, <<>>)]

\* openssl_kdf_create as it would be without the self test in the condition.
openssl_kdf_create_untested(mem, algo, prf_alg, avail, env) ==
    LET name == enum_to_name(hasher_algorithm_from_prf(prf_alg))
        k    == chunk_clone(Alloc(mem, "this", 1), "key", PlaceholderKey)
        this == private_kdf_t(EVP_get_digestbyname(name, avail), k.chunk, chunk_empty)
    IN  IF algo # KDF_PRF_PLUS THEN [ret |-> NULL, this |-> NoObject, mem |-> mem]
        ELSE IF name = NULL THEN [ret |-> NULL, this |-> NoObject, mem |-> mem]
        ELSE IF this.hasher = NULL
        THEN [ret |-> NULL] @@ destroy(this, k.mem)
        ELSE [ret |-> "kdf_t", this |-> this, mem |-> k.mem]

\* openssl_kdf_create as it would be if it cleared the key of the test once
\* the test has passed.
openssl_kdf_create_clears_key(mem, algo, prf_alg, avail, env) ==
    LET name == enum_to_name(hasher_algorithm_from_prf(prf_alg))
        k    == chunk_clone(Alloc(mem, "this", 1), "key", PlaceholderKey)
        this == private_kdf_t(EVP_get_digestbyname(name, avail), k.chunk, chunk_empty)
        t    == get_bytes(this, k.mem, SelfTestLen, Buffer(SelfTestLen, 0, <<>>), env)
        c    == chunk_clear(t.mem, "key", t.this.key)
    IN  IF algo # KDF_PRF_PLUS THEN [ret |-> NULL, this |-> NoObject, mem |-> mem]
        ELSE IF name = NULL THEN [ret |-> NULL, this |-> NoObject, mem |-> mem]
        ELSE IF this.hasher = NULL
        THEN [ret |-> NULL] @@ destroy(this, k.mem)
        ELSE IF ~t.ret
        THEN [ret |-> NULL] @@ destroy(t.this, t.mem)
        ELSE [ret |-> "kdf_t", this |-> [t.this EXCEPT !.key = c.chunk],
              mem |-> c.mem]

\* openssl_kdf_create: NULL for another KDF or a PRF without a hash name;
\* otherwise the object is built with the placeholder key and tested by one
\* derivation of sizeof(buf) bytes, and destroyed again if the digest is
\* missing or the test fails.
openssl_kdf_create(mem, algo, prf_alg, avail, env) ==
    LET name == enum_to_name(hasher_algorithm_from_prf(prf_alg))
        k    == chunk_clone(Alloc(mem, "this", 1), "key", PlaceholderKey)
        this == private_kdf_t(EVP_get_digestbyname(name, avail), k.chunk, chunk_empty)
        t    == get_bytes(this, k.mem, SelfTestLen, Buffer(SelfTestLen, 0, <<>>), env)
    IN  IF algo # KDF_PRF_PLUS THEN [ret |-> NULL, this |-> NoObject, mem |-> mem]
        ELSE IF name = NULL THEN [ret |-> NULL, this |-> NoObject, mem |-> mem]
        ELSE IF this.hasher = NULL
        THEN [ret |-> NULL] @@ destroy(this, k.mem)
        ELSE IF ~t.ret
        THEN [ret |-> NULL] @@ destroy(t.this, t.mem)
        ELSE [ret |-> "kdf_t", this |-> t.this, mem |-> t.mem]

\* ------------------------------------------------------------- the logger

\* a & b, a | b and ~a on integers in two's complement.
RECURSIVE BitAnd(_, _)
BitAnd(a, b) ==
    IF a = 0 \/ b = 0 THEN 0
    ELSE IF a = -1 THEN b
    ELSE IF b = -1 THEN a
    ELSE (a % 2) * (b % 2) + 2 * BitAnd(a \div 2, b \div 2)

BitNot(a) == -a - 1

BitOr(a, b) == BitNot(BitAnd(BitNot(a), BitNot(b)))

\* The condition of logg and log_bytes as it would be if one bit of the
\* mask in the level were enough.
Passes_any_bit(level, loglevel) == BitAnd(level, loglevel) # 0

\* The condition of logg and log_bytes: (this->level & loglevel) == loglevel.
Passes(level, loglevel) == BitAnd(level, loglevel) = loglevel

\* The loop of log_bytes over len bytes and what follows it: i counts the
\* bytes from 1, pos is buffer_pos - buffer; a line is emitted after every
\* sixteenth byte, and one more if the buffer then holds more than the
\* terminating zero.  The lines are handed back by their line_start.
RECURSIVE HexLoop(_, _, _, _, _)
HexLoop(i, len, pos, line_start, lines) ==
    IF i > len
    THEN IF pos + 1 > 1 THEN Append(lines, line_start) ELSE lines
    ELSE IF i % 16 = 0
    THEN HexLoop(i + 1, len, 0, line_start + 16, Append(lines, line_start))
    ELSE HexLoop(i + 1, len, pos + 3, line_start, lines)

HexLines(len) == HexLoop(1, len, 0, 0, <<>>)

\* private_logger_t: the level and the output (NULL for syslog); made tells
\* whether logger_create has made it.
private_logger_t(level, output) ==
    [made |-> TRUE, level |-> level, output |-> output]

NoLogger == [made |-> FALSE, level |-> 0, output |-> NULL]

\* The lines logg emits for a record: one to syslog; to a file the record
\* and then the newline.
LoggLines(output) ==
    IF output = NULL THEN <<"line">> ELSE <<"text", "newline">>

\* logg(this, loglevel, format, ...): the lines it emits.
logg(this, loglevel) ==
    IF Passes(this.level, loglevel) THEN LoggLines(this.output) ELSE <<>>

\* log_bytes(this, loglevel, label, bytes, len): the lines it emits, the
\* header and one for each line of the loop.
log_bytes(this, loglevel, len) ==
    IF Passes(this.level, loglevel)
    THEN <<"header">> \o [i \in 1..Len(HexLines(len)) |-> "data"]
    ELSE <<>>

\* enable_level: this->level |= log_level.
enable_level(this, log_level) ==
    [this EXCEPT !.level = BitOr(@, log_level)]

\* disable_level: this->level &= ~log_level.
disable_level(this, log_level) ==
    [this EXCEPT !.level = BitAnd(@, BitNot(log_level))]

\* get_level
get_level(this) == this.level

\* logger_create(logger_name, log_level, log_thread_id, output)
logger_create(log_level, output) == private_logger_t(log_level, output)

\* One emission: the call and thread it belongs to, the function, what of
\* the record it is, and where it went.
Emission(t, call, op, part, output) ==
    [thread |-> t, call |-> call, op |-> op, part |-> part, to |-> output]

\* ------------------------------------------------------------------ state

VARIABLES
    phase,   \* "none" before construction, "live", "destroyed", "failed"
    this,    \* the private_kdf_t object
    mem,     \* live allocations of the object; what the last call released
    last,    \* the last call: its arguments, what it handed back and why
    prf,     \* history: the PRF the object was constructed for
    gKey,    \* history: the key most recently passed to set_param
    gSalt,   \* history: the salt most recently passed to set_param
    saltRun, \* history: 1 salt set, 2 then derived, 3 then another salt set
    keyRun   \* history: 1 key set, 2 then another key set

vars == <<phase, this, mem, last, prf, gKey, gSalt, saltRun, keyRun>>

\* Two objects of one process.
VARIABLES
    objs,    \* per instance: phase, object, memory, PRF and the key and salt
             \* most recently passed to its set_param
    res      \* the derivation just made, if the last call was one: the
             \* instance and what it handed back

two == <<objs, res>>

\* One object used by two threads at once.
VARIABLES
    shared,  \* the key and salt fields of the object (pointer and length)
             \* and the blocks of memory they point to
    wr,      \* the thread in set_param: where it is, its arguments, the clone
    rd,      \* the thread in get_bytes: where it is, the words it loaded,
             \* its context
    sync     \* the run: whether the callers serialise their calls with a
             \* mutex of their own, who holds it, key and salt at the start

race == <<shared, wr, rd, sync>>

\* Loggers used by two threads at once.
VARIABLES
    loggers, \* per logger: its level and its output
    thr,     \* per thread: where it is in its call, and the call
    mutex,   \* the mutex of log_bytes: the thread that holds it
    out,     \* the lines emitted, in the order of their emission
    calls    \* the number of calls made

sink == <<loggers, thr, mutex, out, calls>>

\* One logger called by one thread.
VARIABLES
    logger,  \* the private_logger_t object
    bits,    \* history: the level as the set of its bits, kept by set
             \* operations on the masks passed
    said     \* the last call: its arguments, what it handed back and emitted

lvl == <<logger, bits, said>>

\* What the calls of each specification leave alone.
notKdf == <<two, race, sink, lvl>>

notTwo == <<vars, race, sink, lvl>>

notRace == <<vars, two, sink, lvl>>

notSink == <<vars, two, race, lvl>>

notLvl == <<vars, two, race, sink>>

allVars == <<vars, two, race, sink, lvl>>

\* Output lengths a caller asks of an object with digest md: none, a few
\* bytes, the most the digest can give, and one more.
OutLens(md) == {0, 16, HkdfMaxLen(md), HkdfMaxLen(md) + 1}

NoCall ==
    [op |-> "none", ret |-> FALSE, obj |-> NULL, type |-> NULL, length |-> 0,
     param |-> NULL, out_len |-> 0, env |-> 0, buffer |-> Buffer(0, 0, <<>>),
     why |-> "none", again |-> FALSE, algo |-> NULL, prf_alg |-> NULL,
     avail |-> {}]

\* The call before this one succeeded as a derivation of the same length.
Again(out_len) ==
    /\ last.op \in {"get_bytes", "allocate_bytes"}
    /\ last.ret
    /\ last.out_len = out_len

\* The memory a call starts from: the live allocations, nothing released yet.
Enter(m) == [m EXCEPT !.released = {}]

\* The names of the two objects.
Instances == {"a", "b"}

\* An instance not constructed yet.
NoInstance ==
    [phase |-> "none", this |-> NoObject, mem |-> EmptyMem, prf |-> NULL,
     key |-> chunk_empty, salt |-> chunk_empty]

NoResult ==
    [inst |-> NULL, ret |-> FALSE, out_len |-> 0, buffer |-> Buffer(0, 0, <<>>)]

\* The loggers and the threads of a run.
Loggers == {"l1", "l2"}

Threads == {"t1", "t2"}

\* A thread that is in no call.
NoThread ==
    [pc |-> "idle", op |-> NULL, logger |-> NULL, call |-> 0, passed |-> FALSE,
     lines |-> <<>>]

\* No call on the one logger yet; first is the level it was created with.
NoSaid ==
    [op |-> "none", mask |-> 0, len |-> 0, level |-> 0, lines |-> <<>>,
     before |-> NoLogger, first |-> 0]

\* The blocks of memory a run of the two threads can hold: the key and the
\* salt of the start, and the clone set_param makes.
BlockNames == {"key0", "salt0", "clone"}

NoBlock == [state |-> "none", data |-> <<>>]

\* A chunk_t as the memory holds it: two words.
Words == {"ptr", "len"}

NoChunk == [ptr |-> NULL, len |-> 0]

NoShared ==
    [key |-> NoChunk, salt |-> NoChunk, blocks |-> [b \in BlockNames |-> NoBlock]]

NoWriter ==
    [pc |-> "idle", param |-> NULL, chunk |-> chunk_empty, clone |-> NoChunk,
     pending |-> {}]

NoReader ==
    [pc |-> "idle", field |-> NULL, arg |-> NoChunk, pending |-> {},
     ctx |-> EVP_PKEY_CTX_new_id(1), ret |-> FALSE]

NoRun ==
    [guarded |-> FALSE, owner |-> NULL, key |-> chunk_empty, salt |-> chunk_empty]

Init ==
    /\ phase = "none"
    /\ this = NoObject
    /\ mem = EmptyMem
    /\ last = NoCall
    /\ prf = NULL
    /\ gKey = chunk_empty
    /\ gSalt = chunk_empty
    /\ saltRun = 0
    /\ keyRun = 0
    /\ objs = [i \in Instances |-> NoInstance]
    /\ res = NoResult
    /\ shared = NoShared
    /\ wr = NoWriter
    /\ rd = NoReader
    /\ sync = NoRun
    /\ loggers = [l \in Loggers |-> NoLogger]
    /\ thr = [t \in Threads |-> NoThread]
    /\ mutex = NULL
    /\ out = <<>>
    /\ calls = 0
    /\ logger = NoLogger
    /\ bits = {}
    /\ said = NoSaid

\* openssl_kdf_create(algo, prf_alg) in a build whose provider has the
\* digests avail.
Create ==
    /\ phase = "none"
    /\ \E algo \in KdfTypes, prf_alg \in PrfAlgs, avail \in SUBSET DigestNames,
          env \in EnvChoices :
          LET r == openssl_kdf_create(Enter(mem), algo, prf_alg, avail, env)
          IN  /\ phase' = IF r.ret = NULL THEN "failed" ELSE "live"
              /\ this' = r.this
              /\ mem' = r.mem
              /\ last' = [NoCall EXCEPT !.op = "create", !.obj = r.ret,
                                        !.algo = algo, !.prf_alg = prf_alg,
                                        !.avail = avail, !.env = env]
              /\ prf' = prf_alg
              /\ gKey' = IF r.ret = NULL THEN chunk_empty ELSE PlaceholderKey
    /\ UNCHANGED <<gSalt, saltRun, keyRun, notKdf>>

GetType ==
    /\ phase = "live"
    /\ last' = [NoCall EXCEPT !.op = "get_type", !.type = get_type(this)]
    /\ mem' = Enter(mem)
    /\ UNCHANGED <<phase, this, prf, gKey, gSalt, saltRun, keyRun, notKdf>>

GetLength ==
    /\ phase = "live"
    /\ last' = [NoCall EXCEPT !.op = "get_length", !.length = get_length(this)]
    /\ mem' = Enter(mem)
    /\ UNCHANGED <<phase, this, prf, gKey, gSalt, saltRun, keyRun, notKdf>>

\* get_bytes(out_len, buffer) with a buffer of out_len bytes of the caller.
GetBytes ==
    /\ phase = "live"
    /\ \E out_len \in OutLens(this.hasher), env \in EnvChoices :
          LET r == get_bytes(this, Enter(mem), out_len,
                             Buffer(out_len, 0, <<>>), env)
          IN  /\ this' = r.this
              /\ mem' = r.mem
              /\ last' = [NoCall EXCEPT !.op = "get_bytes", !.ret = r.ret,
                                        !.out_len = out_len,
                                        !.buffer = r.buffer, !.why = r.why,
                                        !.again = Again(out_len)]
              /\ saltRun' = IF r.ret /\ saltRun = 1 THEN 2 ELSE saltRun
    /\ UNCHANGED <<phase, prf, gKey, gSalt, keyRun, notKdf>>

\* allocate_bytes(out_len, &chunk).  A chunk handed back with success belongs
\* to the caller from then on and is no longer counted as the object's.
AllocateBytes ==
    /\ phase = "live"
    /\ \E out_len \in OutLens(this.hasher), env \in EnvChoices :
          LET r == allocate_bytes(this, Enter(mem), out_len, env)
          IN  /\ this' = r.this
              /\ mem' = IF r.ret /\ r.chunk.len > 0
                        THEN [r.mem EXCEPT !.heap["out"] = @ - 1]
                        ELSE r.mem
              /\ last' = [NoCall EXCEPT !.op = "allocate_bytes", !.ret = r.ret,
                                        !.out_len = out_len,
                                        !.buffer = r.chunk, !.why = r.why,
                                        !.again = Again(out_len)]
              /\ saltRun' = IF r.ret /\ saltRun = 1 THEN 2 ELSE saltRun
    /\ UNCHANGED <<phase, prf, gKey, gSalt, keyRun, notKdf>>

\* set_param(param, chunk)
SetParam ==
    /\ phase = "live"
    /\ \E param \in KdfParams, chunk \in Chunks :
          LET r == set_param(this, Enter(mem), param, chunk)
          IN  /\ this' = r.this
              /\ mem' = r.mem
              /\ last' = [NoCall EXCEPT !.op = "set_param", !.ret = r.ret,
                                        !.param = param]
              /\ gKey' = IF param = KDF_PARAM_KEY THEN chunk ELSE gKey
              /\ gSalt' = IF param = KDF_PARAM_SALT THEN chunk ELSE gSalt
              /\ saltRun' = CASE param = KDF_PARAM_SALT /\ saltRun = 0 -> 1
                              [] param = KDF_PARAM_SALT /\ saltRun = 2
                                 /\ chunk # gSalt -> 3
                              [] OTHER -> saltRun
              /\ keyRun' = CASE param = KDF_PARAM_KEY /\ keyRun = 0 -> 1
                             [] param = KDF_PARAM_KEY /\ keyRun = 1
                                /\ chunk # gKey -> 2
                             [] OTHER -> keyRun
    /\ UNCHANGED <<phase, prf, notKdf>>

\* destroy()
Destroy ==
    /\ phase = "live"
    /\ LET r == destroy(this, Enter(mem))
       IN  /\ this' = r.this
           /\ mem' = r.mem
    /\ phase' = "destroyed"
    /\ last' = [NoCall EXCEPT !.op = "destroy"]
    /\ UNCHANGED <<prf, gKey, gSalt, saltRun, keyRun, notKdf>>

Next ==
    \/ Create
    \/ GetType
    \/ GetLength
    \/ GetBytes
    \/ AllocateBytes
    \/ SetParam
    \/ Destroy

Spec == Init /\ [][Next]_vars

\* ---------------------------------------------------------- two instances

\* The output length asked of the derivations on the two instances.
TwoOutLen == 16

\* A store through the this pointer as it would be if the key were held in
\* a variable of the file, shared by every live object.
WriteThrough_static_key(all, i, obj, m) ==
    [j \in DOMAIN all |->
        IF j = i THEN [all[j] EXCEPT !.this = obj, !.mem = Enter(m)]
        ELSE IF all[j].phase = "live"
        THEN [all[j] EXCEPT !.this.key = obj.key]
        ELSE all[j]]

\* A store through the this pointer of a method called on instance i: the
\* fields are members of the object this points to.  Of the memory the live
\* allocations are kept.
WriteThrough(all, i, obj, m) ==
    [all EXCEPT ![i].this = obj, ![i].mem = Enter(m)]

\* openssl_kdf_create(KDF_PRF_PLUS, prf_alg) for instance i.
CreateOn(i) ==
    /\ objs[i].phase = "none"
    /\ \E prf_alg \in PrfAlgs, env \in {0, 7} :
          LET r == openssl_kdf_create(EmptyMem, KDF_PRF_PLUS, prf_alg,
                                      DigestNames, env)
          IN  objs' = [WriteThrough(objs, i, r.this, r.mem) EXCEPT
                          ![i].phase = IF r.ret = NULL THEN "failed" ELSE "live",
                          ![i].prf = prf_alg,
                          ![i].key = r.this.key]
    /\ res' = NoResult
    /\ UNCHANGED notTwo

\* set_param(param, chunk) on instance i.
SetParamOn(i) ==
    /\ objs[i].phase = "live"
    /\ \E param \in {KDF_PARAM_KEY, KDF_PARAM_SALT}, chunk \in Chunks :
          LET r == set_param(objs[i].this, Enter(objs[i].mem), param, chunk)
          IN  objs' = [WriteThrough(objs, i, r.this, r.mem) EXCEPT
                          ![i].key = IF param = KDF_PARAM_KEY THEN chunk ELSE @,
                          ![i].salt = IF param = KDF_PARAM_SALT THEN chunk ELSE @]
    /\ res' = NoResult
    /\ UNCHANGED notTwo

\* get_bytes(TwoOutLen, buffer) on instance i.
GetBytesOn(i) ==
    /\ objs[i].phase = "live"
    /\ \E env \in {0, 7} :
          LET r == get_bytes(objs[i].this, Enter(objs[i].mem), TwoOutLen,
                             Buffer(TwoOutLen, 0, <<>>), env)
          IN  /\ objs' = WriteThrough(objs, i, r.this, r.mem)
              /\ res' = [inst |-> i, ret |-> r.ret, out_len |-> TwoOutLen,
                         buffer |-> r.buffer]
    /\ UNCHANGED notTwo

\* destroy() on instance i.
DestroyOn(i) ==
    /\ objs[i].phase = "live"
    /\ LET r == destroy(objs[i].this, Enter(objs[i].mem))
       IN  objs' = [WriteThrough(objs, i, r.this, r.mem) EXCEPT
                       ![i].phase = "destroyed"]
    /\ res' = NoResult
    /\ UNCHANGED notTwo

NextTwo ==
    \/ \E i \in Instances : CreateOn(i)
    \/ \E i \in Instances : SetParamOn(i)
    \/ \E i \in Instances : GetBytesOn(i)
    \/ \E i \in Instances : DestroyOn(i)

SpecTwo == Init /\ [][NextTwo]_allVars

\* ------------------------------------------- one object, two threads

\* The bytes the memory can hold in n bytes.
ByteStrings(n) == [1..n -> ByteVals]

\* What stands in place of the bytes of a read that ended in a fault (no
\* byte has this value).
Fault == <<-1>>

\* The field of the object a case of the switch in set_param works on.
Field_always_key(param) == "key"

Field(param) ==
    CASE param = KDF_PARAM_KEY -> "key"
      [] param = KDF_PARAM_SALT -> "salt"

\* What reading len bytes at ptr can hand back: the bytes of a live block
\* that holds that many; nothing for no bytes; for a null pointer a fault;
\* for a freed block, or more bytes than the block holds, any bytes or a
\* fault.
ReadBytes(blocks, ptr, len) ==
    IF len = 0 THEN {<<>>}
    ELSE IF ptr = NULL THEN {Fault}
    ELSE IF blocks[ptr].state = "live" /\ len <= Len(blocks[ptr].data)
    THEN {SubSeq(blocks[ptr].data, 1, len)}
    ELSE ByteStrings(len) \cup {Fault}

\* A chunk of the start placed in its block.
Placed(name, chunk) ==
    IF Len(chunk) = 0 THEN NoChunk ELSE [ptr |-> name, len |-> Len(chunk)]

\* The object as set_param calls made one after the other left it, and the
\* two calls about to be made on it: set_param(param, chunk) and get_bytes.
RaceStart ==
    /\ wr.pc = "idle"
    /\ \E key \in Chunks, salt \in Chunks, param \in {KDF_PARAM_KEY, KDF_PARAM_SALT},
          chunk \in Chunks, guarded \in BOOLEAN :
          /\ shared' = [key |-> Placed("key0", key),
                        salt |-> Placed("salt0", salt),
                        blocks |-> [b \in BlockNames |->
                                      CASE b = "key0" /\ Len(key) > 0
                                              -> [state |-> "live", data |-> key]
                                        [] b = "salt0" /\ Len(salt) > 0
                                              -> [state |-> "live", data |-> salt]
                                        [] OTHER -> NoBlock]]
          /\ wr' = [NoWriter EXCEPT !.pc = "call", !.param = param,
                                    !.chunk = chunk]
          /\ rd' = [NoReader EXCEPT !.pc = "call"]
          /\ sync' = [guarded |-> guarded, owner |-> NULL, key |-> key,
                      salt |-> salt]
    /\ UNCHANGED notRace

\* set_param is entered; callers that serialise take their mutex first.
SetParamEnter ==
    /\ wr.pc = "call"
    /\ sync.guarded => sync.owner = NULL
    /\ sync' = [sync EXCEPT !.owner = IF sync.guarded THEN "wr" ELSE @]
    /\ wr' = [wr EXCEPT !.pc = IF shared[Field(wr.param)].ptr = NULL
                               THEN "clone" ELSE "wipe"]
    /\ UNCHANGED <<shared, rd, notRace>>

\* chunk_clear, memwipe: the bytes the field points to are set to zero.
SetParamWipe ==
    /\ wr.pc = "wipe"
    /\ shared' = [shared EXCEPT
                     !.blocks[shared[Field(wr.param)].ptr].data = Zeros(Len(@))]
    /\ wr' = [wr EXCEPT !.pc = "free"]
    /\ UNCHANGED <<rd, sync, notRace>>

\* chunk_clear, chunk_free: the block is freed.
SetParamFree ==
    /\ wr.pc = "free"
    /\ shared' = [shared EXCEPT
                     !.blocks[shared[Field(wr.param)].ptr].state = "freed"]
    /\ wr' = [wr EXCEPT !.pc = "empty", !.pending = Words]
    /\ UNCHANGED <<rd, sync, notRace>>

\* chunk_clear, chunk_free: chunk_empty is stored in the field, one word at
\* a time.
SetParamEmpty ==
    /\ wr.pc = "empty"
    /\ \E w \in wr.pending :
          /\ shared' = [shared EXCEPT ![Field(wr.param)][w] = NoChunk[w]]
          /\ wr' = [wr EXCEPT !.pending = @ \ {w},
                              !.pc = IF wr.pending = {w} THEN "clone" ELSE @]
    /\ UNCHANGED <<rd, sync, notRace>>

\* chunk_clone(chunk): a block of its own with the bytes of the chunk.
SetParamClone ==
    /\ wr.pc = "clone"
    /\ shared' = IF Len(wr.chunk) = 0 THEN shared
                 ELSE [shared EXCEPT !.blocks["clone"] =
                                        [state |-> "live", data |-> wr.chunk]]
    /\ wr' = [wr EXCEPT !.pc = "store", !.clone = Placed("clone", wr.chunk),
                        !.pending = Words]
    /\ UNCHANGED <<rd, sync, notRace>>

\* this->key = the clone (or this->salt), one word at a time.
SetParamStore ==
    /\ wr.pc = "store"
    /\ \E w \in wr.pending :
          /\ shared' = [shared EXCEPT ![Field(wr.param)][w] = wr.clone[w]]
          /\ wr' = [wr EXCEPT !.pending = @ \ {w},
                              !.pc = IF wr.pending = {w} THEN "return" ELSE @]
    /\ UNCHANGED <<rd, sync, notRace>>

\* return TRUE; callers that serialise give their mutex back.
SetParamReturn ==
    /\ wr.pc = "return"
    /\ wr' = [wr EXCEPT !.pc = "done"]
    /\ sync' = [sync EXCEPT !.owner = NULL]
    /\ UNCHANGED <<shared, rd, notRace>>

\* get_bytes is entered (callers that serialise take their mutex first):
\* the context is made, initialised, and given digest and mode.
GetBytesEnter ==
    /\ rd.pc = "call"
    /\ sync.guarded => sync.owner = NULL
    /\ sync' = [sync EXCEPT !.owner = IF sync.guarded THEN "rd" ELSE @]
    /\ rd' = [rd EXCEPT !.pc = "load", !.field = "key", !.pending = Words,
                        !.ctx = OrMode(OrMd(OrInit(EVP_PKEY_CTX_new_id(0), 0),
                                            "sha256", 0), 0)]
    /\ UNCHANGED <<shared, wr, notRace>>

\* this->key.ptr, this->key.len (then those of the salt): the arguments of
\* the call are loaded, one word at a time.
GetBytesLoad ==
    /\ rd.pc = "load"
    /\ \E w \in rd.pending :
          rd' = [rd EXCEPT !.arg[w] = shared[rd.field][w],
                           !.pending = @ \ {w},
                           !.pc = IF rd.pending = {w} THEN "copy" ELSE @]
    /\ UNCHANGED <<shared, wr, sync, notRace>>

\* EVP_PKEY_CTX_set1_hkdf_key, then EVP_PKEY_CTX_add1_hkdf_info: the bytes
\* the arguments name are read and put into the context.
GetBytesCopy ==
    /\ rd.pc = "copy"
    /\ \E bytes \in ReadBytes(shared.blocks, rd.arg.ptr, rd.arg.len) :
          rd' = IF rd.field = "key"
                THEN [rd EXCEPT !.ctx = OrKey(rd.ctx, bytes, 0),
                                !.field = "salt", !.pending = Words,
                                !.arg = NoChunk, !.pc = "load"]
                ELSE [rd EXCEPT !.ctx = IF bytes = Fault
                                        THEN [@ EXCEPT !.info = Fault]
                                        ELSE OrInfo(@, bytes, 0),
                                !.arg = NoChunk, !.pc = "derive"]
    /\ UNCHANGED <<shared, wr, sync, notRace>>

\* EVP_PKEY_derive and EVP_PKEY_CTX_free; a read that ended in a fault has
\* no result.
GetBytesDerive ==
    /\ rd.pc = "derive"
    /\ rd' = [rd EXCEPT !.pc = "return",
                        !.ret = /\ Fault \notin {rd.ctx.key, rd.ctx.info}
                                /\ OrDerive(rd.ctx, Buffer(TwoOutLen, 0, <<>>),
                                            TwoOutLen, 0).ok]
    /\ UNCHANGED <<shared, wr, sync, notRace>>

\* return; callers that serialise give their mutex back.
GetBytesReturn ==
    /\ rd.pc = "return"
    /\ rd' = [rd EXCEPT !.pc = "done"]
    /\ sync' = [sync EXCEPT !.owner = NULL]
    /\ UNCHANGED <<shared, wr, notRace>>

NextRace ==
    \/ RaceStart
    \/ SetParamEnter
    \/ SetParamWipe
    \/ SetParamFree
    \/ SetParamEmpty
    \/ SetParamClone
    \/ SetParamStore
    \/ SetParamReturn
    \/ GetBytesEnter
    \/ GetBytesLoad
    \/ GetBytesCopy
    \/ GetBytesDerive
    \/ GetBytesReturn

SpecRace == Init /\ [][NextRace]_allVars

\* ------------------------------------------ two loggers, two threads

\* The calls made in a run.
MaxCalls == 2

\* Levels of the loggers and masks of the calls of a run, outputs of the
\* loggers (NULL is syslog), and lengths of the bytes dumped.
RunLevels == {0, 1}

Outputs == {NULL, "file"}

ByteLens == {0, 16, 17}

\* Where a call goes once it has tested its mask, as it would be if
\* log_bytes locked its mutex before the test.
Entry_locks_first(op, passes) ==
    CASE op = "log" -> IF passes THEN "emit" ELSE "return"
      [] op = "log_bytes" -> "lock"

\* Where a call goes once it has tested its mask, as it would be if logg
\* took the mutex of log_bytes as well.
Entry_logg_locks(op, passes) ==
    IF passes THEN "lock" ELSE "return"

\* Where a call goes once it has tested its mask: logg to its output,
\* log_bytes to pthread_mutex_lock, a call whose mask fails to its return.
Entry(op, passes) ==
    CASE op = "log" -> IF passes THEN "emit" ELSE "return"
      [] op = "log_bytes" -> IF passes THEN "lock" ELSE "return"

\* logger_create for both loggers.
LoggersCreate ==
    /\ \A l \in Loggers : ~loggers[l].made
    /\ \E level \in [Loggers -> RunLevels], output \in [Loggers -> Outputs] :
          loggers' = [l \in Loggers |-> private_logger_t(level[l], output[l])]
    /\ UNCHANGED <<thr, mutex, out, calls, notSink>>

\* logg(loglevel, ...) is called by thread t and tests its mask.
LoggCall(t) ==
    /\ thr[t].pc = "idle"
    /\ calls < MaxCalls
    /\ \E l \in Loggers, loglevel \in RunLevels :
          /\ loggers[l].made
          /\ thr' = [thr EXCEPT ![t] =
                        [pc |-> Entry("log", Passes(loggers[l].level, loglevel)),
                         op |-> "log", logger |-> l, call |-> calls + 1,
                         passed |-> Passes(loggers[l].level, loglevel),
                         lines |-> <<>>]]
    /\ calls' = calls + 1
    /\ UNCHANGED <<loggers, mutex, out, notSink>>

\* logg: vsyslog of the record, or vfprintf of it to the file.
LoggEmit(t) ==
    /\ thr[t].pc = "emit"
    /\ LET to == loggers[thr[t].logger].output
       IN  /\ out' = Append(out, Emission(t, thr[t].call, "log",
                                          IF to = NULL THEN "line" ELSE "text",
                                          to))
           /\ thr' = [thr EXCEPT ![t].pc = IF to = NULL THEN "return"
                                           ELSE "newline"]
    /\ UNCHANGED <<loggers, mutex, calls, notSink>>

\* logg: fprintf of the newline to the file.
LoggNewline(t) ==
    /\ thr[t].pc = "newline"
    /\ out' = Append(out, Emission(t, thr[t].call, "log", "newline",
                                   loggers[thr[t].logger].output))
    /\ thr' = [thr EXCEPT ![t].pc = "return"]
    /\ UNCHANGED <<loggers, mutex, calls, notSink>>

\* log_bytes(loglevel, label, bytes, len) is called by thread t and tests
\* its mask.
LogBytesCall(t) ==
    /\ thr[t].pc = "idle"
    /\ calls < MaxCalls
    /\ \E l \in Loggers, loglevel \in RunLevels, len \in ByteLens :
          /\ loggers[l].made
          /\ thr' = [thr EXCEPT ![t] =
                        [pc |-> Entry("log_bytes",
                                      Passes(loggers[l].level, loglevel)),
                         op |-> "log_bytes", logger |-> l, call |-> calls + 1,
                         passed |-> Passes(loggers[l].level, loglevel),
                         lines |-> HexLines(len)]]
    /\ calls' = calls + 1
    /\ UNCHANGED <<loggers, mutex, out, notSink>>

\* log_bytes: pthread_mutex_lock(&mutex) returns once no thread holds it.
LogBytesLock(t) ==
    /\ thr[t].pc = "lock"
    /\ mutex = NULL
    /\ mutex' = t
    /\ thr' = [thr EXCEPT ![t].pc = "header"]
    /\ UNCHANGED <<loggers, out, calls, notSink>>

\* log_bytes: the line "label (len bytes)".
LogBytesHeader(t) ==
    /\ thr[t].pc = "header"
    /\ out' = Append(out, Emission(t, thr[t].call, thr[t].op, "header",
                                   loggers[thr[t].logger].output))
    /\ thr' = [thr EXCEPT ![t].pc = IF thr[t].lines = <<>> THEN "unlock"
                                    ELSE "data"]
    /\ UNCHANGED <<loggers, mutex, calls, notSink>>

\* log_bytes: the next line of hexadecimal digits.
LogBytesData(t) ==
    /\ thr[t].pc = "data"
    /\ out' = Append(out, Emission(t, thr[t].call, thr[t].op, "data",
                                   loggers[thr[t].logger].output))
    /\ thr' = [thr EXCEPT ![t].lines = Tail(@),
                          ![t].pc = IF Len(thr[t].lines) = 1 THEN "unlock"
                                    ELSE "data"]
    /\ UNCHANGED <<loggers, mutex, calls, notSink>>

\* log_bytes: pthread_mutex_unlock(&mutex).
LogBytesUnlock(t) ==
    /\ thr[t].pc = "unlock"
    /\ mutex' = NULL
    /\ thr' = [thr EXCEPT ![t].pc = "return"]
    /\ UNCHANGED <<loggers, out, calls, notSink>>

\* The call of thread t returns.
SinkReturn(t) ==
    /\ thr[t].pc = "return"
    /\ thr' = [thr EXCEPT ![t] = NoThread]
    /\ UNCHANGED <<loggers, mutex, out, calls, notSink>>

\* What thread t can do next.
Step(t) ==
    \/ LoggCall(t)
    \/ LoggEmit(t)
    \/ LoggNewline(t)
    \/ LogBytesCall(t)
    \/ LogBytesLock(t)
    \/ LogBytesHeader(t)
    \/ LogBytesData(t)
    \/ LogBytesUnlock(t)
    \/ SinkReturn(t)

NextLog ==
    \/ LoggersCreate
    \/ \E t \in Threads : LoggCall(t)
    \/ \E t \in Threads : LoggEmit(t)
    \/ \E t \in Threads : LoggNewline(t)
    \/ \E t \in Threads : LogBytesCall(t)
    \/ \E t \in Threads : LogBytesLock(t)
    \/ \E t \in Threads : LogBytesHeader(t)
    \/ \E t \in Threads : LogBytesData(t)
    \/ \E t \in Threads : LogBytesUnlock(t)
    \/ \E t \in Threads : SinkReturn(t)

SpecLog == Init /\ [][NextLog]_allVars

\* ------------------------------------------------- one logger, one thread

\* The bits of a level.
LevelBits == 2

RECURSIVE Pow2(_)
Pow2(n) == IF n = 0 THEN 1 ELSE 2 * Pow2(n - 1)

\* The levels and masks of log_level_t within these bits.
Levels == 0..(Pow2(LevelBits) - 1)

\* The bits set in a level.
BitsOf(n) == {i \in 0..(LevelBits - 1) : (n \div Pow2(i)) % 2 = 1}

\* logger_create(name, log_level, log_thread_id, output)
LoggerCreate ==
    /\ ~logger.made
    /\ \E log_level \in Levels, output \in Outputs :
          /\ logger' = logger_create(log_level, output)
          /\ bits' = BitsOf(log_level)
          /\ said' = [NoSaid EXCEPT !.op = "logger_create", !.first = log_level]
    /\ UNCHANGED notLvl

\* enable_level(log_level)
EnableLevel ==
    /\ logger.made
    /\ \E log_level \in Levels :
          /\ logger' = enable_level(logger, log_level)
          /\ bits' = bits \cup BitsOf(log_level)
          /\ said' = [NoSaid EXCEPT !.op = "enable_level", !.mask = log_level,
                                    !.before = logger, !.first = said.first]
    /\ UNCHANGED notLvl

\* disable_level(log_level)
DisableLevel ==
    /\ logger.made
    /\ \E log_level \in Levels :
          /\ logger' = disable_level(logger, log_level)
          /\ bits' = bits \ BitsOf(log_level)
          /\ said' = [NoSaid EXCEPT !.op = "disable_level", !.mask = log_level,
                                    !.before = logger, !.first = said.first]
    /\ UNCHANGED notLvl

\* get_level()
GetLevel ==
    /\ logger.made
    /\ said' = [NoSaid EXCEPT !.op = "get_level", !.level = get_level(logger),
                              !.before = logger, !.first = said.first]
    /\ UNCHANGED <<logger, bits, notLvl>>

\* log(loglevel, format, ...)
Logg ==
    /\ logger.made
    /\ \E loglevel \in Levels :
          said' = [NoSaid EXCEPT !.op = "log", !.mask = loglevel,
                                 !.lines = logg(logger, loglevel),
                                 !.before = logger, !.first = said.first]
    /\ UNCHANGED <<logger, bits, notLvl>>

\* log_bytes(loglevel, label, bytes, len)
LogBytes ==
    /\ logger.made
    /\ \E loglevel \in Levels, len \in ByteLens :
          said' = [NoSaid EXCEPT !.op = "log_bytes", !.mask = loglevel,
                                 !.len = len,
                                 !.lines = log_bytes(logger, loglevel, len),
                                 !.before = logger, !.first = said.first]
    /\ UNCHANGED <<logger, bits, notLvl>>

NextLevel ==
    \/ LoggerCreate
    \/ EnableLevel
    \/ DisableLevel
    \/ GetLevel
    \/ Logg
    \/ LogBytes

SpecLevel == Init /\ [][NextLevel]_allVars

\* ----------------------------------------------------------------- claims

DeriveOps == {"get_bytes", "allocate_bytes"}

\* The object a caller gets by constructing one for the PRF in a build that
\* has every digest and setting key and salt on it directly.
FreshObject(prf_alg, key, salt) ==
    LET c == openssl_kdf_create(EmptyMem, KDF_PRF_PLUS, prf_alg, DigestNames, 0)
        k == set_param(c.this, c.mem, KDF_PARAM_KEY, key)
    IN  set_param(k.this, k.mem, KDF_PARAM_SALT, salt)

\* What a derivation of out_len bytes hands back on that object.
FreshDerive(op, prf_alg, key, salt, out_len) ==
    LET f == FreshObject(prf_alg, key, salt)
    IN  IF op = "get_bytes"
        THEN get_bytes(f.this, f.mem, out_len, Buffer(out_len, 0, <<>>), 0).buffer
        ELSE allocate_bytes(f.this, f.mem, out_len, 0).chunk

\* C1 (context isolation): every derivation that succeeds hands back the
\* bytes a derivation of the same length hands back on a fresh object of the
\* same PRF whose key and salt were set directly to the values most recently
\* passed to set_param; in particular after salt A, derive, salt B, derive the
\* second result is that of a fresh object with salt B.
C1_ContextIsolation ==
    (last.op \in DeriveOps /\ last.ret)
        => last.buffer = FreshDerive(last.op, prf, gKey, gSalt, last.out_len)

\* C1 witness: a salt was set, bytes were derived, another salt was set, and
\* a derivation of some bytes has just succeeded.
C1_Witness ==
    /\ saltRun = 3
    /\ last.op = "allocate_bytes"
    /\ last.ret
    /\ last.out_len > 0
    /\ gSalt # chunk_empty

\* C2 (key replacement): once a key has been replaced by another, the key
\* the live object holds is exactly the key passed last, and a derivation that succeeds hands
\* back the bytes of a fresh object on which only that key was set.
C2_KeyReplacement ==
    (phase = "live" /\ keyRun = 2)
        => /\ this.key = gKey
           /\ (last.op \in DeriveOps /\ last.ret)
                  => last.buffer = FreshDerive(last.op, prf, gKey, gSalt,
                                               last.out_len)

\* C2 witness: key K1 then another key K2 were set and a derivation of some
\* bytes has just succeeded.
C2_Witness ==
    /\ keyRun = 2
    /\ gKey # chunk_empty
    /\ last.op = "allocate_bytes"
    /\ last.ret
    /\ last.out_len > 0

\* C3 (read-only, deterministic derive): a derivation, successful or not,
\* leaves digest, key and salt as they were, and when it succeeds right after
\* a successful derivation of the same length it hands back the same bytes.
C3_DeriveReadOnly ==
    [][last'.op \in DeriveOps
          => /\ this' = this
             /\ (last.op \in DeriveOps /\ last.ret /\ last'.ret
                 /\ last'.out_len = last.out_len)
                    => last'.buffer = last.buffer]_vars

\* C3 witness: a derivation of some bytes succeeded right after a successful
\* derivation of the same length.
C3_Witness ==
    /\ last.op \in DeriveOps
    /\ last.ret
    /\ last.again
    /\ last.out_len > 0

\* The constructor's arguments and build allow an object: prf+ was asked for,
\* the PRF has a hash name, the provider has the digest, and no step of the
\* self test reported an error.
Constructible(call) ==
    /\ call.algo = KDF_PRF_PLUS
    /\ enum_to_name(hasher_algorithm_from_prf(call.prf_alg)) # NULL
    /\ enum_to_name(hasher_algorithm_from_prf(call.prf_alg)) \in call.avail
    /\ call.env \notin 1..7

\* What the constructor releases of the object when it gives up after
\* building it: the object and its placeholder key, cleared.
Dismantled ==
    {[kind |-> "this", data |-> <<>>],
     [kind |-> "key", data |-> Zeros(Len(PlaceholderKey))]}

\* C4 (construction gating): the constructor hands back an object exactly
\* when prf+ was asked for, the PRF has a hash name, the provider has the
\* digest and the self test succeeded; when it hands back none, nothing it
\* allocated is still live: nothing was allocated for another KDF or a PRF
\* without hash name, and otherwise the object and its cleared placeholder
\* key were released.
C4_ConstructionGating ==
    last.op = "create"
        => /\ (last.obj # NULL) <=> Constructible(last)
           /\ last.obj # NULL
                  => /\ phase = "live"
                     /\ this.hasher
                            = enum_to_name(hasher_algorithm_from_prf(last.prf_alg))
           /\ last.obj = NULL
                  => /\ phase = "failed"
                     /\ this = NoObject
                     /\ \A k \in Kinds : mem.heap[k] = 0
                     /\ {r \in mem.released : r.kind # "ctx"}
                            = IF /\ last.algo = KDF_PRF_PLUS
                                 /\ enum_to_name(hasher_algorithm_from_prf(
                                        last.prf_alg)) # NULL
                              THEN Dismantled
                              ELSE {}

\* C4 witness: construction for an available digest failed in the self test
\* and released the object and its placeholder key.
C4_Witness ==
    /\ last.op = "create"
    /\ last.algo = KDF_PRF_PLUS
    /\ enum_to_name(hasher_algorithm_from_prf(last.prf_alg)) \in last.avail
    /\ last.env = 7
    /\ last.obj = NULL
    /\ Dismantled \subseteq mem.released

\* C5 (failed derive exposes nothing): when allocate_bytes fails, the chunk
\* handed back is empty, the buffer it allocated was freed and no context is
\* left; when it succeeds, every byte of the chunk was written.
C5_FailedDeriveExposesNothing ==
    last.op = "allocate_bytes"
        => /\ ~last.ret
                  => /\ last.buffer = Buffer(0, 0, <<>>)
                     /\ mem.heap["out"] = 0
                     /\ mem.heap["ctx"] = 0
                     /\ last.out_len > 0
                            => [kind |-> "out", data |-> <<>>] \in mem.released
           /\ last.ret => last.buffer.written = last.buffer.len

\* C5 witness: allocate_bytes for some bytes failed on an error of a step and
\* freed its buffer.
C5_Witness ==
    /\ last.op = "allocate_bytes"
    /\ ~last.ret
    /\ last.why = "error"
    /\ last.out_len > 0
    /\ [kind |-> "out", data |-> <<>>] \in mem.released

\* C6 (unknown parameter kind), as claimed: set_param with a parameter other
\* than key and salt fails.
C6_UnknownParamFails ==
    (last.op = "set_param" /\ last.param \notin {KDF_PARAM_KEY, KDF_PARAM_SALT})
        => ~last.ret

\* C7 (output-length boundaries), as claimed: a derivation of no bytes that
\* meets no error succeeds with an empty result, a length above get_length()
\* fails, and a derivation that fails for its length asked for more than
\* get_length().
C7_OutputLengthBoundaries ==
    last.op \in DeriveOps
        => /\ (last.out_len = 0 /\ last.why # "error")
                  => (last.ret /\ last.buffer.len = 0)
           /\ last.out_len > get_length(this) => ~last.ret
           /\ (~last.ret /\ last.why = "length") => last.out_len > get_length(this)

\* C8 (output limit), as claimed: get_length() hands back the ceiling of the
\* expansion, 255 times the output size of the digest.
C8_OutputLimitIsCeiling ==
    last.op = "get_length" => last.length = HkdfMaxLen(this.hasher)

\* C9 (exact length): a derivation of out_len bytes that succeeds hands back
\* a buffer of out_len bytes of which out_len were written, whatever the
\* derivation left in its length argument.
C9_ExactLength ==
    (last.op \in DeriveOps /\ last.ret)
        => /\ last.buffer.len = last.out_len
           /\ last.buffer.written = last.out_len

\* C9 witness: allocate_bytes succeeded for the most bytes the digest gives.
C9_Witness ==
    /\ last.op = "allocate_bytes"
    /\ last.ret
    /\ last.out_len = HkdfMaxLen(this.hasher)
    /\ last.buffer.len = HkdfMaxLen(this.hasher)

\* C10 (secure erasure): whatever a call released of a key or a salt held
\* only zero bytes when it was freed, and once the object is destroyed or its
\* construction has failed no key or salt buffer is live.
C10_SecureErasure ==
    /\ \A r \in mem.released : r.kind \in {"key", "salt"} => AllZero(r.data)
    /\ phase \in {"destroyed", "failed"}
           => (mem.heap["key"] = 0 /\ mem.heap["salt"] = 0)

\* C10 witness: destroy() released a key and a salt that were not zero.
C10_Witness ==
    /\ last.op = "destroy"
    /\ ~AllZero(gKey)
    /\ ~AllZero(gSalt)
    /\ [kind |-> "key", data |-> Zeros(Len(gKey))] \in mem.released
    /\ [kind |-> "salt", data |-> Zeros(Len(gSalt))] \in mem.released

\* The calls a caller makes on a live object other than destroy().
UseOps == {"get_type", "get_length", "get_bytes", "allocate_bytes", "set_param"}

C12_InstanceIndependence ==
    /\ [](res.ret
             => res.buffer = FreshDerive("get_bytes", objs[res.inst].prf,
                                         objs[res.inst].key,
                                         objs[res.inst].salt, res.out_len))
    /\ [][\A i, j \in Instances :
              i # j => (objs'[i] = objs[i] \/ objs'[j] = objs[j])]_allVars

\* C12 witness: both objects are live, of different PRFs and with different
\* keys and salts set on them, and a derivation on one of them has just
\* succeeded.
C12_Witness ==
    /\ res.inst = "a"
    /\ res.ret
    /\ objs["a"].phase = "live"
    /\ objs["b"].phase = "live"
    /\ objs["a"].prf # objs["b"].prf
    /\ objs["a"].this.key \notin {PlaceholderKey, objs["b"].this.key}
    /\ objs["b"].this.key # PlaceholderKey
    /\ objs["a"].this.salt # objs["b"].this.salt

\* Key and salt of the object once the set_param of the run has returned.
KeyOnceSet == IF wr.param = KDF_PARAM_KEY THEN wr.chunk ELSE sync.key

SaltOnceSet == IF wr.param = KDF_PARAM_SALT THEN wr.chunk ELSE sync.salt

\* C13 (no internal synchronisation): when the callers serialise set_param
\* and get_bytes on one object with a mutex of their own, get_bytes succeeds
\* and puts into its context one complete key and one complete salt, those
\* of before the set_param or those of after it; with or without the mutex
\* the parameter that is not being set is read complete.  Without the mutex
\* the parameter being set can be read as neither its old nor its new value
\* (the witness), since set_param clears and frees the old buffer before it
\* stores the copy.
C13_NoInternalSynchronisation ==
    rd.pc \in {"return", "done"}
        => /\ sync.guarded
                  => /\ rd.ret
                     /\ <<rd.ctx.key, rd.ctx.info>>
                            \in {<<sync.key, sync.salt>>, <<KeyOnceSet, SaltOnceSet>>}
           /\ wr.param = KDF_PARAM_KEY => rd.ctx.info = sync.salt
           /\ wr.param = KDF_PARAM_SALT => rd.ctx.key = sync.key

\* C13 witness: without a mutex, set_param(KEY) and get_bytes have both
\* returned and the key get_bytes put into its context is neither the old
\* key nor the new one (nor did the read end in a fault).
C13_Witness ==
    /\ ~sync.guarded
    /\ wr.pc = "done"
    /\ rd.pc = "done"
    /\ wr.param = KDF_PARAM_KEY
    /\ rd.ctx.key \notin {sync.key, wr.chunk, Fault}

\* What the free of a context leaves in the released storage.
FreedContext == [kind |-> "ctx", data |-> <<>>]

\* C14 (ephemeral derivation context): no context is live between two
\* calls; a derivation that succeeded, or failed for its length or for an
\* error of a step after the creation of the context, released the context
\* it had made; the context a derivation prepares holds as info exactly the
\* salt of the object and as key its key, and the bytes derived are those of
\* that info: nothing of an earlier call is in it.
C14_EphemeralContext ==
    /\ mem.heap["ctx"] = 0
    /\ (last.op \in DeriveOps /\ (last.ret \/ last.why = "length"))
           => FreedContext \in mem.released
    /\ phase = "live"
           => \A env \in EnvChoices :
                 /\ ~EVP_PKEY_CTX_new_id(env).null
                        => FreedContext \in get_bytes(this, Enter(mem), SelfTestLen,
                                                      Buffer(SelfTestLen, 0, <<>>),
                                                      env).mem.released
                 /\ Prepared(this, env).ok
                        => /\ Prepared(this, env).info = this.salt
                           /\ Prepared(this, env).key = this.key
    /\ (last.op \in DeriveOps /\ last.ret /\ last.out_len > 0)
           => last.buffer.data
                  = HKDF_Expand(EVP_PKEY_HKDEF_MODE_EXPAND_ONLY, this.hasher,
                                this.key, this.salt, last.out_len)

\* C14 witness: after salt, derivation and another salt, a derivation failed
\* on an error of a step and the context it had made was released.
C14_Witness ==
    /\ saltRun = 3
    /\ last.op = "get_bytes"
    /\ ~last.ret
    /\ last.why = "error"
    /\ FreedContext \in mem.released
    /\ mem.heap["ctx"] = 0

\* The buffers an object holding this chunk owns for it: one, or none for an
\* empty chunk.
Owned(chunk) == IF Len(chunk) = 0 THEN 0 ELSE 1

\* C15 (set_param postcondition and frame): set_param(KEY, v) succeeds for
\* every v, the empty one included, leaves v as the key in a buffer of the
\* object's own and leaves salt and digest as they were; set_param(SALT, v)
\* likewise with key and salt exchanged; so in every live state key and salt
\* are the values most recently passed for them (the placeholder key and the
\* empty salt before any was passed).
C15_SetParamPostcondition ==
    /\ [](phase = "live"
             => /\ this.key = gKey
                /\ this.salt = gSalt
                /\ mem.heap["key"] = Owned(gKey)
                /\ mem.heap["salt"] = Owned(gSalt))
    /\ [][(last'.op = "set_param" /\ last'.param = KDF_PARAM_KEY)
             => /\ last'.ret
                /\ this'.key = gKey'
                /\ this'.salt = this.salt
                /\ this'.hasher = this.hasher]_vars
    /\ [][(last'.op = "set_param" /\ last'.param = KDF_PARAM_SALT)
             => /\ last'.ret
                /\ this'.salt = gSalt'
                /\ this'.key = this.key
                /\ this'.hasher = this.hasher]_vars

\* C15 witness: with a salt held, a key was replaced by the empty key.
C15_Witness ==
    /\ last.op = "set_param"
    /\ last.param = KDF_PARAM_KEY
    /\ last.ret
    /\ keyRun = 2
    /\ gKey = chunk_empty
    /\ this.key = chunk_empty
    /\ this.salt # chunk_empty

\* C16 (immutable algorithm binding): in every live state the digest of the
\* object is the one resolved from the PRF it was constructed for, and is
\* not null, whatever set_param and derivation calls were made since; and
\* get_type() answers prf+ in every live state.
C16_ImmutableAlgorithmBinding ==
    /\ phase = "live"
           => /\ this.hasher # NULL
              /\ this.hasher = enum_to_name(hasher_algorithm_from_prf(prf))
              /\ get_type(this) = KDF_PRF_PLUS
    /\ last.op = "get_type" => last.type = KDF_PRF_PLUS

\* C16 witness: get_type() was asked of a SHA-1 object after its key was
\* replaced by the empty key and salts were set around a derivation.
C16_Witness ==
    /\ last.op = "get_type"
    /\ last.type = KDF_PRF_PLUS
    /\ prf = "PRF_HMAC_SHA1"
    /\ this.hasher = "sha1"
    /\ keyRun = 2
    /\ this.key = chunk_empty
    /\ saltRun = 3

\* C17 (post-construction state): right after a construction that succeeded
\* the key is the placeholder of 32 bytes '0', the salt is empty, and of the
\* self test nothing is left: the object and its key are the only live
\* allocations, and the salt is still empty.  The placeholder stays the
\* key until set_param(KEY) is called, so a derivation made before that
\* does not fail for want of a key: without an error of a step it succeeds
\* for a length the digest can give, and its bytes are those of the
\* placeholder key and the salt held.
C17_PostConstructionState ==
    /\ (last.op = "create" /\ last.obj # NULL)
           => /\ this.key = PlaceholderKey
              /\ Len(this.key) = 32
              /\ \A i \in 1..Len(this.key) : this.key[i] = 48
              /\ this.salt = chunk_empty
              /\ mem.heap = [k \in Kinds |-> IF k \in {"this", "key"} THEN 1 ELSE 0]
    /\ (phase = "live" /\ keyRun = 0)
           => /\ this.key = PlaceholderKey
              /\ get_bytes(this, Enter(mem), SelfTestLen,
                           Buffer(SelfTestLen, 0, <<>>), 0).ret
    /\ (last.op \in DeriveOps /\ keyRun = 0)
           => /\ ~last.ret => last.why \in {"error", "length"}
              /\ last.why = "length" => last.out_len > HkdfMaxLen(this.hasher)
              /\ (last.ret /\ last.out_len > 0)
                     => last.buffer.data
                            = HKDF_Expand(EVP_PKEY_HKDEF_MODE_EXPAND_ONLY,
                                          this.hasher, PlaceholderKey, this.salt,
                                          last.out_len)

\* C17 witness: a salt was set but never a key, and a derivation of some
\* bytes has just succeeded.
C17_Witness ==
    /\ keyRun = 0
    /\ saltRun = 2
    /\ last.op \in DeriveOps
    /\ last.ret
    /\ last.out_len > 0
    /\ this.key = PlaceholderKey
    /\ this.salt # chunk_empty

\* Where a thread is while it emits the lines of a log_bytes call.
Dumping == {"header", "data", "unlock"}

\* C18 (hex-dump atomicity): between two lines of one log_bytes call no
\* line of another log_bytes call is emitted, whichever loggers the calls
\* are made on; the one mutex is held exactly by the thread that is emitting
\* the lines of a log_bytes call, only calls whose mask passed the level
\* come to lock it, and a thread that has left log_bytes does not hold it.
C18_HexDumpAtomicity ==
    /\ \A i, k \in DOMAIN out :
           (i < k /\ out[i].op = "log_bytes" /\ out[k].call = out[i].call)
               => \A j \in i..k :
                     out[j].op = "log_bytes" => out[j].call = out[i].call
    /\ \A t \in Threads :
           /\ thr[t].pc \in Dumping <=> mutex = t
           /\ thr[t].pc \in Dumping \cup {"lock"}
                  => (thr[t].op = "log_bytes" /\ thr[t].passed)
           /\ thr[t].pc \in {"return", "idle"} => mutex # t

\* C18 witness: the lines of two log_bytes calls of two threads on two
\* loggers follow each other, those of the call made later first.
C18_Witness ==
    \E i \in DOMAIN out :
        /\ i > 1
        /\ out[i].op = "log_bytes"
        /\ out[i - 1].op = "log_bytes"
        /\ out[i].part = "header"
        /\ out[i - 1].part = "data"
        /\ out[i].call < out[i - 1].call
        /\ out[i].thread # out[i - 1].thread
        /\ out[i].to # out[i - 1].to
        /\ thr[out[i].thread].pc = "data"

\* A thread is in pthread_mutex_lock while another thread holds the mutex.
Waits(t) == thr[t].pc = "lock" /\ mutex \notin {NULL, t}

\* C19 (emission never waits), as claimed: no call waits for the emission
\* of another thread.
C19_EmissionNeverWaits ==
    \A t \in Threads : ~Waits(t)

\* C19, amended: logg takes no lock and never waits for another thread,
\* and no call waits anywhere but in the pthread_mutex_lock of log_bytes;
\* there only a log_bytes call whose mask passed the level waits, for the
\* thread that is emitting the lines of another log_bytes call, and that
\* thread is not waiting itself.
C19_OnlyLogBytesWaits ==
    \A t \in Threads :
        /\ thr[t].op = "log" => thr[t].pc # "lock"
        /\ thr[t].pc \notin {"idle", "lock"} => ENABLED Step(t)
        /\ thr[t].pc = "lock"
               => /\ thr[t].op = "log_bytes"
                  /\ thr[t].passed
                  /\ (ENABLED Step(t)) <=> ~Waits(t)
                  /\ Waits(t) => /\ thr[mutex].op = "log_bytes"
                                 /\ thr[mutex].pc \in Dumping
                                 /\ ENABLED Step(mutex)

\* C19 witness: a log_bytes call waits for the mutex while another thread
\* is emitting the data lines of a log_bytes call on another logger.
C19_Witness ==
    \E t \in Threads :
        /\ Waits(t)
        /\ thr[mutex].pc = "data"
        /\ thr[mutex].logger # thr[t].logger

\* C20 (level filtering): the level of the logger is the level it was
\* created with, with the bits of every mask enabled since set and those of
\* every mask disabled since cleared, in the order of the calls, and
\* get_level() hands it back; log and log_bytes with mask M emit exactly
\* when every bit of M is in the level (always for the mask without bits),
\* log_bytes then its header and the lines of its bytes; neither changes the
\* logger, and a call that is filtered out emits nothing.
C20_LevelFiltering ==
    logger.made
        => /\ logger.level \in Levels
           /\ BitsOf(logger.level) = bits
           /\ said.op = "enable_level"
                  => BitsOf(logger.level)
                         = BitsOf(said.before.level) \cup BitsOf(said.mask)
           /\ said.op = "disable_level"
                  => BitsOf(logger.level)
                         = BitsOf(said.before.level) \ BitsOf(said.mask)
           /\ said.op = "get_level"
                  => (said.level = logger.level /\ BitsOf(said.level) = bits)
           /\ said.op \in {"log", "log_bytes"}
                  => /\ said.lines # <<>> <=> BitsOf(said.mask) \subseteq bits
                     /\ logger = said.before
           /\ (said.op = "log_bytes" /\ said.lines # <<>>)
                  => /\ Head(said.lines) = "header"
                     /\ Len(said.lines) = 1 + (said.len + 15) \div 16

\* C20 witness: a logger created without any bit has had one bit enabled,
\* and a log_bytes call whose mask holds this bit and another was filtered
\* out.
C20_Witness ==
    /\ logger.made
    /\ said.first = 0
    /\ Cardinality(bits) = 1
    /\ said.op = "log_bytes"
    /\ Cardinality(BitsOf(said.mask)) = 2
    /\ bits \subseteq BitsOf(said.mask)
    /\ said.lines = <<>>

====
